---- MODULE Spec2Model ----
(***************************************************************************)
(* A model of DeterministicBankStatementParser                             *)
(* (src/src/parsers/deterministic_parser.py).                              *)
(*                                                                         *)
(* Text is modelled with TLA+ strings and the code's string operations     *)
(* (join, strip, upper, substring test, the three regular expressions) are *)
(* computed character by character.  Coordinates are whole page points.    *)
(* A monetary amount (a Python float with two decimals) is modelled by its *)
(* value in cents; None is modelled by -1, which no parsed amount equals   *)
(* because _try_parse_amount strips the sign before parsing.               *)
(***************************************************************************)
EXTENDS Integers, Sequences, FiniteSets, TLC

VARIABLES
    pc,                  \* position of the control flow
    self_warnings,       \* self.warnings of the parser object
    self_confidence,     \* self.confidence of the parser object, in millionths
    parses,              \* number of parse() calls made on the parser object
    doc,                 \* the document handed to the running parse() call
    page_num,            \* loop variable of parse()'s page loop
    all_transactions,    \* all_transactions of parse()
    words,               \* input of _group_words_into_lines / _parse_transaction_from_words
    lines,               \* the structured lines under work
    table_start_idx,     \* table_start_idx of _extract_page_transactions, None until found
    line_idx,            \* number of lines the row loop has consumed
    transactions,        \* transactions of _parse_table_rows_from_lines
    current_transaction, \* current_transaction: <<>> for None, <<record>> otherwise
    parsed,              \* result of _parse_transaction_from_words
    result               \* the ParserResult returned by parse(): <<>> until it returns

vars == <<pc, self_warnings, self_confidence, parses, doc, page_num, all_transactions,
          words, lines, table_start_idx, line_idx, transactions, current_transaction,
          parsed, result>>

-----------------------------------------------------------------------------
(* Values *)

None == 0 - 1

\* self.confidence = 1.0, in millionths
ConfidenceOne == 1000000

\* abs(existing_y - y0) < 3
LineProximity == 3

\* x_pos > 503, x_pos > 440, x_pos > 364
BalanceX == 503
DepositX == 440
WithdrawalX == 364

\* withdrawal > 1000, deposit > 1000 (in cents)
MisclassifiedAbove == 100000

\* len(text.strip()) < 50
MinTextLen == 50

-----------------------------------------------------------------------------
(* String operations *)

Digits == {"0", "1", "2", "3", "4", "5", "6", "7", "8", "9"}

DigitValue(c) ==
    CASE c = "0" -> 0 [] c = "1" -> 1 [] c = "2" -> 2 [] c = "3" -> 3 [] c = "4" -> 4
      [] c = "5" -> 5 [] c = "6" -> 6 [] c = "7" -> 7 [] c = "8" -> 8 [] c = "9" -> 9

CharAt(s, i) == SubSeq(s, i, i)

\* m in s
Contains(s, m) ==
    \E i \in 1..(Len(s) - Len(m) + 1) : SubSeq(s, i, i + Len(m) - 1) = m

\* " ".join(texts)
RECURSIVE JoinTexts(_)
JoinTexts(texts) ==
    IF Len(texts) = 0 THEN ""
    ELSE IF Len(texts) = 1 THEN texts[1]
    ELSE texts[1] \o " " \o JoinTexts(Tail(texts))

\* " ".join([w["text"] for w in line["words"]])
LineText(ws) == JoinTexts([i \in 1..Len(ws) |-> ws[i].text])

Whitespace == {" ", "\n", "\t", "\r"}

\* str.strip()
RECURSIVE Strip(_)
Strip(s) ==
    IF Len(s) = 0 THEN s
    ELSE IF CharAt(s, 1) \in Whitespace THEN Strip(SubSeq(s, 2, Len(s)))
    ELSE IF CharAt(s, Len(s)) \in Whitespace THEN Strip(SubSeq(s, 1, Len(s) - 1))
    ELSE s

UpperChar(c) ==
    CASE c = "a" -> "A" [] c = "b" -> "B" [] c = "c" -> "C" [] c = "d" -> "D"
      [] c = "e" -> "E" [] c = "f" -> "F" [] c = "g" -> "G" [] c = "h" -> "H"
      [] c = "i" -> "I" [] c = "j" -> "J" [] c = "k" -> "K" [] c = "l" -> "L"
      [] c = "m" -> "M" [] c = "n" -> "N" [] c = "o" -> "O" [] c = "p" -> "P"
      [] c = "q" -> "Q" [] c = "r" -> "R" [] c = "s" -> "S" [] c = "t" -> "T"
      [] c = "u" -> "U" [] c = "v" -> "V" [] c = "w" -> "W" [] c = "x" -> "X"
      [] c = "y" -> "Y" [] c = "z" -> "Z" [] OTHER -> c

\* str.upper()
RECURSIVE Upper(_)
Upper(s) ==
    IF Len(s) = 0 THEN s ELSE UpperChar(CharAt(s, 1)) \o Upper(SubSeq(s, 2, Len(s)))

AllDigits(s) == \A i \in 1..Len(s) : CharAt(s, i) \in Digits

\* \d{2}/\d{2}/\d{4} on a string of exactly ten characters
DateShape(s) ==
    /\ Len(s) = 10
    /\ AllDigits(SubSeq(s, 1, 2))
    /\ CharAt(s, 3) = "/"
    /\ AllDigits(SubSeq(s, 4, 5))
    /\ CharAt(s, 6) = "/"
    /\ AllDigits(SubSeq(s, 7, 10))

\* the date pattern without the closing anchor
MatchesDate_Prefix(s) == Len(s) >= 10 /\ DateShape(SubSeq(s, 1, 10))

\* re.match(r'^\d{2}/\d{2}/\d{4}$', first_word)
MatchesDate(s) == DateShape(s)

\* re.match(r'^\d{2}/\d{2}/\d{4}', line_text.strip())
StartsWithDate(s) == Len(Strip(s)) >= 10 /\ DateShape(SubSeq(Strip(s), 1, 10))

\* re.sub(r'[^\d,\.]', '', text)
RECURSIVE CleanAmountText(_)
CleanAmountText(text) ==
    IF Len(text) = 0 THEN text
    ELSE (IF CharAt(text, 1) \in Digits \cup {",", "."} THEN CharAt(text, 1) ELSE "")
         \o CleanAmountText(SubSeq(text, 2, Len(text)))

\* re.match(r'^[\d,]+\.\d{2}$', cleaned)
MatchesAmount(cleaned) ==
    /\ Len(cleaned) >= 4
    /\ \A i \in 1..(Len(cleaned) - 3) : CharAt(cleaned, i) \in Digits \cup {","}
    /\ CharAt(cleaned, Len(cleaned) - 2) = "."
    /\ AllDigits(SubSeq(cleaned, Len(cleaned) - 1, Len(cleaned)))

\* amount_str.replace(",", "")
RECURSIVE RemoveCommas(_)
RemoveCommas(s) ==
    IF Len(s) = 0 THEN s
    ELSE (IF CharAt(s, 1) = "," THEN "" ELSE CharAt(s, 1)) \o RemoveCommas(SubSeq(s, 2, Len(s)))

\* the number a string of digits denotes (0 for no digits, as in float(".00"))
RECURSIVE DigitsToNat(_)
DigitsToNat(s) ==
    IF Len(s) = 0 THEN 0
    ELSE 10 * DigitsToNat(SubSeq(s, 1, Len(s) - 1)) + DigitValue(CharAt(s, Len(s)))

\* _parse_amount on a string that matched the amount shape: float(clean_str), in cents
ParseAmount(amount_str) ==
    LET clean_str == RemoveCommas(amount_str)
        n == Len(clean_str)
    IN  100 * DigitsToNat(SubSeq(clean_str, 1, n - 3)) + DigitsToNat(SubSeq(clean_str, n - 1, n))

\* _try_parse_amount
TryParseAmount(text) ==
    LET cleaned == CleanAmountText(text)
    IN  IF Contains(cleaned, ".") /\ MatchesAmount(cleaned) THEN ParseAmount(cleaned) ELSE None

-----------------------------------------------------------------------------
(* LineGrouper: _group_words_into_lines *)

Abs(n) == IF n < 0 THEN 0 - n ELSE n

\* FindLineKey looking at the line started last only
FindLineKey_LastOnly(lines_dict, y0, k) ==
    IF Len(lines_dict) > 0 /\ Abs(lines_dict[Len(lines_dict)].y - y0) < LineProximity
    THEN Len(lines_dict) ELSE 0

\* for existing_y in lines_dict.keys(): if abs(existing_y - y0) < 3: ... break
\* lines_dict is a sequence of [y, words] in insertion order; 0 when no key is near
RECURSIVE FindLineKey(_, _, _)
FindLineKey(lines_dict, y0, k) ==
    IF k > Len(lines_dict) THEN 0
    ELSE IF Abs(lines_dict[k].y - y0) < LineProximity THEN k
    ELSE FindLineKey(lines_dict, y0, k + 1)

\* the body of "for word in words": the word joins the first near line or starts one
AddWordToLines(lines_dict, word) ==
    LET k == FindLineKey(lines_dict, word.y0, 1)
    IN  IF k = 0
        THEN Append(lines_dict, [y |-> word.y0, words |-> <<word>>])
        ELSE [lines_dict EXCEPT ![k].words = Append(@, word)]

RECURSIVE BuildLinesDict(_, _)
BuildLinesDict(ws, lines_dict) ==
    IF Len(ws) = 0 THEN lines_dict
    ELSE BuildLinesDict(Tail(ws), AddWordToLines(lines_dict, Head(ws)))

\* sorted(..., key=lambda w: w["x0"]): stable, equal x0 keep their order
RECURSIVE InsertByX0(_, _)
InsertByX0(sorted, w) ==
    IF Len(sorted) = 0 THEN <<w>>
    ELSE IF sorted[Len(sorted)].x0 <= w.x0 THEN Append(sorted, w)
    ELSE Append(InsertByX0(SubSeq(sorted, 1, Len(sorted) - 1), w), sorted[Len(sorted)])

RECURSIVE SortByX0(_)
SortByX0(ws) ==
    IF Len(ws) = 0 THEN <<>>
    ELSE InsertByX0(SortByX0(SubSeq(ws, 1, Len(ws) - 1)), ws[Len(ws)])

\* for y_pos in sorted(lines_dict.keys()): the keys are distinct
RECURSIVE SortLinesByY(_)
SortLinesByY(lines_dict) ==
    IF Len(lines_dict) = 0 THEN <<>>
    ELSE LET m == CHOOSE i \in 1..Len(lines_dict) :
                      \A j \in 1..Len(lines_dict) : lines_dict[i].y <= lines_dict[j].y
             rest == [j \in 1..(Len(lines_dict) - 1) |->
                          IF j < m THEN lines_dict[j] ELSE lines_dict[j + 1]]
         IN  <<[y |-> lines_dict[m].y, words |-> SortByX0(lines_dict[m].words)]>>
             \o SortLinesByY(rest)

GroupWordsIntoLines(ws) ==
    IF Len(ws) = 0 THEN <<>> ELSE SortLinesByY(BuildLinesDict(ws, <<>>))

-----------------------------------------------------------------------------
(* TableLocator: _find_table_start_from_lines *)

HasCurrencyMarker(line) == Contains(Upper(LineText(line.words)), "CURRENCY:")

\* the 0-based index the scan returns from line i (1-based) on, None when no line matches
RECURSIVE FindTableStartFrom(_, _)
FindTableStartFrom(ls, i) ==
    IF i > Len(ls) THEN None
    ELSE IF HasCurrencyMarker(ls[i]) THEN (i - 1) + 1
    ELSE IF StartsWithDate(LineText(ls[i].words)) THEN i - 1
    ELSE FindTableStartFrom(ls, i + 1)

FindTableStartFromLines(ls) == FindTableStartFrom(ls, 1)

\* lines[table_start_idx:]
SliceFrom(ls, idx) == SubSeq(ls, idx + 1, Len(ls))

-----------------------------------------------------------------------------
(* RowParser: _parse_transaction_from_words *)

\* Python truthiness of an Optional[float]: None and 0.0 are false
Truthy(amount) == amount # None /\ amount # 0

\* ClassifyWord with the column bounds inclusive
ClassifyWord_AtThreshold(acc, word) ==
    LET amount == TryParseAmount(word.text)
    IN  IF amount # None
        THEN IF word.x0 >= BalanceX THEN [acc EXCEPT !.balance = amount]
             ELSE IF word.x0 >= DepositX THEN [acc EXCEPT !.deposit = amount]
             ELSE IF word.x0 >= WithdrawalX THEN [acc EXCEPT !.withdrawal = amount]
             ELSE [acc EXCEPT !.description_parts = Append(@, word.text)]
        ELSE [acc EXCEPT !.description_parts = Append(@, word.text)]

\* ClassifyWord with an amount of the description area dropped
ClassifyWord_DropsAmount(acc, word) ==
    LET amount == TryParseAmount(word.text)
    IN  IF amount # None
        THEN IF word.x0 > BalanceX THEN [acc EXCEPT !.balance = amount]
             ELSE IF word.x0 > DepositX THEN [acc EXCEPT !.deposit = amount]
             ELSE IF word.x0 > WithdrawalX THEN [acc EXCEPT !.withdrawal = amount]
             ELSE acc
        ELSE [acc EXCEPT !.description_parts = Append(@, word.text)]

\* the body of "for word in words[1:]"
ClassifyWord(acc, word) ==
    LET amount == TryParseAmount(word.text)
    IN  IF amount # None
        THEN IF word.x0 > BalanceX THEN [acc EXCEPT !.balance = amount]
             ELSE IF word.x0 > DepositX THEN [acc EXCEPT !.deposit = amount]
             ELSE IF word.x0 > WithdrawalX THEN [acc EXCEPT !.withdrawal = amount]
             ELSE [acc EXCEPT !.description_parts = Append(@, word.text)]
        ELSE [acc EXCEPT !.description_parts = Append(@, word.text)]

RECURSIVE ClassifyWords(_, _)
ClassifyWords(ws, acc) ==
    IF Len(ws) = 0 THEN acc ELSE ClassifyWords(Tail(ws), ClassifyWord(acc, Head(ws)))

\* the columns after the threshold assignment, before the validation step
AssignColumns(ws) ==
    ClassifyWords(Tail(ws), [description_parts |-> <<>>, withdrawal |-> None,
                             deposit |-> None, balance |-> None])

\* "if withdrawal and not balance and withdrawal > 1000", then the same for deposit
CorrectMisclassified(acc) ==
    LET a == IF Truthy(acc.withdrawal) /\ ~Truthy(acc.balance)
                  /\ acc.withdrawal > MisclassifiedAbove
             THEN [acc EXCEPT !.balance = acc.withdrawal, !.withdrawal = None]
             ELSE acc
    IN  IF Truthy(a.deposit) /\ ~Truthy(a.balance) /\ a.deposit > MisclassifiedAbove
        THEN [a EXCEPT !.balance = a.deposit, !.deposit = None]
        ELSE a

\* <<>> for None, <<record>> for the dictionary
ParseTransactionFromWords(ws) ==
    IF Len(ws) = 0 THEN <<>>
    ELSE IF ~MatchesDate(ws[1].text) THEN <<>>
    ELSE LET acc == CorrectMisclassified(AssignColumns(ws))
         IN  <<[date |-> ws[1].text,
                description |-> Strip(JoinTexts(acc.description_parts)),
                withdrawal |-> acc.withdrawal,
                deposit |-> acc.deposit,
                balance |-> acc.balance]>>

-----------------------------------------------------------------------------
(* TransactionAssembler: the row loop of _parse_table_rows_from_lines *)

EndOfTableMarkers ==
    {"Balance Carried Forward", "Total Balance Carried Forward", "Messages For",
     "Transaction Details as of", "Page"}

\* any(marker in line_text for marker in [...])
IsEndOfTable(line) == \E marker \in EndOfTableMarkers : Contains(LineText(line.words), marker)

\* the body of "for word in line["words"]" on a continuation line
MergeWord(cur, word) ==
    LET amount == TryParseAmount(word.text)
    IN  IF amount = None THEN cur
        ELSE IF word.x0 > BalanceX
             THEN (IF ~Truthy(cur.balance) THEN [cur EXCEPT !.balance = amount] ELSE cur)
        ELSE IF word.x0 > DepositX
             THEN (IF ~Truthy(cur.deposit) THEN [cur EXCEPT !.deposit = amount] ELSE cur)
        ELSE IF word.x0 > WithdrawalX
             THEN (IF ~Truthy(cur.withdrawal) THEN [cur EXCEPT !.withdrawal = amount] ELSE cur)
        ELSE cur

RECURSIVE MergeWords(_, _)
MergeWords(cur, ws) ==
    IF Len(ws) = 0 THEN cur ELSE MergeWords(MergeWord(cur, Head(ws)), Tail(ws))

HasAmount(ws) == \E i \in 1..Len(ws) : TryParseAmount(ws[i].text) # None

\* AppendDescription without the separating space
AppendDescription_NoSpace(cur, ws) == [cur EXCEPT !.description = @ \o LineText(ws)]

\* current_transaction["description"] += " " + continuation_text
AppendDescription(cur, ws) == [cur EXCEPT !.description = @ \o " " \o LineText(ws)]

\* the continuation branch: amounts fill the slots, a line without amounts is description
MergeContinuation(cur, ws) ==
    IF HasAmount(ws) THEN MergeWords(cur, ws) ELSE AppendDescription(cur, ws)

\* current_transaction = parsed; current_transaction["page"] = page_num + 1
OpenRecord(rec, pn) ==
    [date |-> rec.date, description |-> rec.description, withdrawal |-> rec.withdrawal,
     deposit |-> rec.deposit, balance |-> rec.balance, page |-> pn + 1]

\* if current_transaction: transactions.append(current_transaction)
CloseInto(txs, cur) == IF cur # <<>> THEN Append(txs, cur[1]) ELSE txs

-----------------------------------------------------------------------------
(* TransactionAssembler: _remove_balance_forward_entries *)

IsBalanceForward(t) ==
    \/ Contains(t.description, "Balance Brought Forward")
    \/ Contains(t.description, "Balance Carried Forward")

\* the filter testing one of the two markers only
RECURSIVE RemoveBalanceForwardEntries_BroughtOnly(_)
RemoveBalanceForwardEntries_BroughtOnly(txs) ==
    IF Len(txs) = 0 THEN <<>>
    ELSE (IF Contains(Head(txs).description, "Balance Brought Forward")
          THEN <<>> ELSE <<Head(txs)>>)
         \o RemoveBalanceForwardEntries_BroughtOnly(Tail(txs))

RECURSIVE RemoveBalanceForwardEntries(_)
RemoveBalanceForwardEntries(txs) ==
    IF Len(txs) = 0 THEN <<>>
    ELSE (IF IsBalanceForward(Head(txs)) THEN <<>> ELSE <<Head(txs)>>)
         \o RemoveBalanceForwardEntries(Tail(txs))

-----------------------------------------------------------------------------
(* DocumentValidator: _validate_document *)

ThinText(text) == Len(Strip(text)) < MinTextLen

HeadersMissing(text) ==
    ~Contains(text, "Transaction Details") /\ ~Contains(text, "Account Summary")

\* self.confidence *= 0.5, self.confidence *= 0.7
Halve(c) == (c * 5) \div 10
SevenTenths(c) == (c * 7) \div 10

\* ValidateDocument warning of a thin text layer without lowering the confidence
ValidateDocument_NoPenalty(d, warnings, confidence) ==
    IF d.npages = 0
    THEN [ok |-> FALSE, warnings |-> Append(warnings, "Empty document"),
          confidence |-> confidence]
    ELSE LET w1 == IF ThinText(d.text)
                   THEN Append(warnings, "Insufficient text content - possible OCR needed")
                   ELSE warnings
             w2 == IF HeadersMissing(d.text)
                   THEN Append(w1, "Expected headers not found") ELSE w1
             c2 == IF HeadersMissing(d.text) THEN SevenTenths(confidence) ELSE confidence
         IN  [ok |-> TRUE, warnings |-> w2, confidence |-> c2]

\* ValidateDocument letting a document without pages through
ValidateDocument_EmptyPasses(d, warnings, confidence) ==
    LET w1 == IF d.npages = 0 THEN Append(warnings, "Empty document") ELSE warnings
        w2 == IF ThinText(d.text)
              THEN Append(w1, "Insufficient text content - possible OCR needed") ELSE w1
        c1 == IF ThinText(d.text) THEN Halve(confidence) ELSE confidence
        w3 == IF HeadersMissing(d.text) THEN Append(w2, "Expected headers not found") ELSE w2
        c2 == IF HeadersMissing(d.text) THEN SevenTenths(c1) ELSE c1
    IN  [ok |-> TRUE, warnings |-> w3, confidence |-> c2]

\* [ok, warnings, confidence]: the return value and the parser fields it leaves
ValidateDocument(d, warnings, confidence) ==
    IF d.npages = 0
    THEN [ok |-> FALSE, warnings |-> Append(warnings, "Empty document"),
          confidence |-> confidence]
    ELSE LET w1 == IF ThinText(d.text)
                   THEN Append(warnings, "Insufficient text content - possible OCR needed")
                   ELSE warnings
             c1 == IF ThinText(d.text) THEN Halve(confidence) ELSE confidence
             w2 == IF HeadersMissing(d.text)
                   THEN Append(w1, "Expected headers not found") ELSE w1
             c2 == IF HeadersMissing(d.text) THEN SevenTenths(c1) ELSE c1
         IN  [ok |-> TRUE, warnings |-> w2, confidence |-> c2]

\* ParserResult(...); abort_reason is <<>> for None
ParserResult(success, data, confidence, warnings, abort_reason) ==
    [success |-> success, data |-> data, confidence |-> confidence,
     warnings |-> warnings, abort_reason |-> abort_reason]

-----------------------------------------------------------------------------
(* Bounds and inputs *)

MaxPages == 3       \* pages of a document
MaxParses == 2      \* parse() calls on one parser object, where it is used again
MaxRowLines == 3    \* lines handed to the row loop checked on its own
MaxRowWords == 3    \* words after the first word of a row parsed on its own
MaxGroupWords == 3  \* word tokens grouped on their own
MaxLocateLines == 3 \* lines handed to the table locator checked on its own

Word(t, x, y) == [text |-> t, x0 |-> x, y0 |-> y]

SeqsUpTo(S, n) == UNION {[1..k -> S] : k \in 0..n}

\* first-page texts: full, long without headers, thin with a header, blank
PageTexts ==
    {"DBS Account Summary\nTransaction Details as of 31 Jan 2022\n",
     "Consolidated statement of all holdings for this customer\n",
     "\nAccount Summary\n",
     "  \n"}

\* doc before pymupdf.open has returned
NoDocument == [npages |-> None, text |-> ""]

Documents ==
    {[npages |-> 0, text |-> ""]}
    \cup {[npages |-> n, text |-> t] : n \in 1..MaxPages, t \in PageTexts}

\* str(e) of what pymupdf raises
ErrorTexts == {"cannot open broken document"}

\* visual rows as <<text, x0, y0 offset within the row>>
HeaderRow == << <<"Currency:", 60, 0>>, <<"SGD", 110, 1>> >>
ElevenRow == << <<"01/01/2022", 40, 0>>, <<"7-ELEVEN", 110, 0>>, <<"20.00", 380, 1>>,
                <<"7,980.00", 520, 2>> >>
BalanceRow == << <<"02/01/2022", 40, 0>>, <<"Balance", 110, 0>> >>
CarriedRow == << <<"Carried", 110, 0>>, <<"Forward", 150, 1>> >>
BroughtRow == << <<"03/01/2022", 40, 0>>, <<"Balance", 110, 0>>, <<"Brought", 150, 0>>,
                 <<"Forward", 190, 0>>, <<"8,000.00", 520, 0>> >>
FooterRow == << <<"Page", 280, 0>>, <<"1", 300, 0>> >>

\* the pages of the documents, top to bottom: without words, without a table, a table
\* that starts after the last line, one row, rows below the header, a description that
\* wraps, a pagination row, a footer
PageRowLists ==
    {<<>>,
     <<CarriedRow>>,
     <<HeaderRow>>,
     <<ElevenRow>>,
     <<HeaderRow, ElevenRow>>,
     <<BalanceRow, CarriedRow>>,
     <<ElevenRow, BroughtRow>>,
     <<ElevenRow, FooterRow>>}

RowY(i) == 100 + 12 * i

\* the words of row number i, in reading order
RowWords(row, i) == [k \in 1..Len(row) |-> Word(row[k][1], row[k][2], RowY(i) + row[k][3])]

RECURSIVE PageWordsFrom(_, _)
PageWordsFrom(rows, i) ==
    IF i > Len(rows) THEN <<>> ELSE RowWords(rows[i], i) \o PageWordsFrom(rows, i + 1)

\* what page.get_text("words") can return
PageWordLists == {PageWordsFrom(rows, 1) : rows \in PageRowLists}

-----------------------------------------------------------------------------
(* parse() *)

Init ==
    /\ pc = "idle"
    /\ self_warnings = <<>>
    /\ self_confidence = ConfidenceOne
    /\ parses = 0
    /\ doc = NoDocument
    /\ page_num = 0
    /\ all_transactions = <<>>
    /\ words = <<>>
    /\ lines = <<>>
    /\ table_start_idx = None
    /\ line_idx = 0
    /\ transactions = <<>>
    /\ current_transaction = <<>>
    /\ parsed = <<>>
    /\ result = <<>>

\* an except branch that hands back the records of the pages done so far and keeps the
\* error text out of the warnings
ExceptionResult_PartialData(e) ==
    ParserResult(FALSE, all_transactions, 0, self_warnings, <<"Unexpected error: " \o e>>)

\* the except branch of parse()
ExceptionResult(e) ==
    ParserResult(FALSE, <<>>, 0, Append(self_warnings, e), <<"Unexpected error: " \o e>>)

\* parse(): pymupdf.open raises
ParseOpenFails ==
    /\ pc = "idle"
    /\ \E e \in ErrorTexts : result' = <<ExceptionResult(e)>>
    /\ parses' = parses + 1
    /\ pc' = "done"
    /\ UNCHANGED <<self_warnings, self_confidence, doc, page_num, all_transactions, words,
                   lines, table_start_idx, line_idx, transactions, current_transaction,
                   parsed>>

\* parse(): a document of docs opens and goes through the ingestion guard
ParseDocument(docs) ==
    /\ pc = "idle"
    /\ \E d \in docs :
          LET v == ValidateDocument(d, self_warnings, self_confidence)
          IN  /\ doc' = d
              /\ self_warnings' = v.warnings
              /\ self_confidence' = v.confidence
              /\ IF v.ok
                 THEN /\ result' = <<>>
                      /\ pc' = "page_loop"
                 ELSE /\ result' = <<ParserResult(FALSE, <<>>, 0, v.warnings,
                                                  <<"Document integrity check failed">>)>>
                      /\ pc' = "done"
    /\ parses' = parses + 1
    /\ UNCHANGED <<page_num, all_transactions, words, lines, table_start_idx, line_idx,
                   transactions, current_transaction, parsed>>

ParseBegin == ParseDocument(Documents)

\* _extract_page_transactions up to the row loop
PageBegin ==
    /\ pc = "page_loop"
    /\ page_num < doc.npages
    /\ \E ws \in PageWordLists :
          /\ words' = ws
          /\ IF Len(ws) = 0
             THEN /\ self_warnings' = Append(self_warnings,
                                             "No text found on page " \o ToString(page_num + 1))
                  /\ lines' = <<>>
                  /\ table_start_idx' = None
                  /\ pc' = "page_return"
             ELSE LET ls == GroupWordsIntoLines(ws)
                      start == FindTableStartFromLines(ls)
                  IN  /\ table_start_idx' = start
                      /\ IF start = None
                         THEN /\ self_warnings' =
                                    Append(self_warnings,
                                           "Could not find transaction table on page "
                                           \o ToString(page_num + 1))
                              /\ lines' = ls
                              /\ pc' = "page_return"
                         ELSE /\ self_warnings' = self_warnings
                              /\ lines' = SliceFrom(ls, start)
                              /\ pc' = "rows"
    /\ line_idx' = 0
    /\ transactions' = <<>>
    /\ current_transaction' = <<>>
    /\ parsed' = <<>>
    /\ UNCHANGED <<self_confidence, parses, doc, page_num, all_transactions, result>>

\* parse(): page.get_text raises
PageRaises ==
    /\ pc = "page_loop"
    /\ page_num < doc.npages
    /\ \E e \in ErrorTexts : result' = <<ExceptionResult(e)>>
    /\ pc' = "done"
    /\ UNCHANGED <<self_warnings, self_confidence, parses, doc, page_num, all_transactions,
                   words, lines, table_start_idx, line_idx, transactions,
                   current_transaction, parsed>>

\* the line the row loop takes next
NextLine == lines[line_idx + 1]

InRowLoop == pc = "rows" /\ line_idx < Len(lines)

\* row loop: the line holds an end-of-table marker
RowEndOfTable ==
    /\ InRowLoop
    /\ IsEndOfTable(NextLine)
    /\ transactions' = CloseInto(transactions, current_transaction)
    /\ line_idx' = line_idx + 1
    /\ pc' = "rows_break"
    /\ UNCHANGED <<self_warnings, self_confidence, parses, doc, page_num, all_transactions,
                   words, lines, table_start_idx, current_transaction, parsed, result>>

\* row loop: the line is parsed and starts a new transaction, continues the open one,
\* or is dropped
RowParsed ==
    /\ InRowLoop
    /\ ~IsEndOfTable(NextLine)
    /\ LET p == ParseTransactionFromWords(NextLine.words)
       IN  /\ parsed' = p
           /\ IF p # <<>>
              THEN /\ transactions' = CloseInto(transactions, current_transaction)
                   /\ current_transaction' = <<OpenRecord(p[1], page_num)>>
              ELSE IF current_transaction # <<>> /\ Len(NextLine.words) > 0
              THEN /\ transactions' = transactions
                   /\ current_transaction' =
                          <<MergeContinuation(current_transaction[1], NextLine.words)>>
              ELSE UNCHANGED <<transactions, current_transaction>>
    /\ line_idx' = line_idx + 1
    /\ UNCHANGED <<pc, self_warnings, self_confidence, parses, doc, page_num,
                   all_transactions, words, lines, table_start_idx, result>>

\* after the row loop: "Add final transaction" and return
RowsReturn ==
    /\ \/ pc = "rows_break"
       \/ pc = "rows" /\ line_idx = Len(lines)
    /\ transactions' = CloseInto(transactions, current_transaction)
    /\ pc' = "page_return"
    /\ UNCHANGED <<self_warnings, self_confidence, parses, doc, page_num, all_transactions,
                   words, lines, table_start_idx, line_idx, current_transaction, parsed,
                   result>>

\* parse(): all_transactions.extend(transactions), next page
PageEnd ==
    /\ pc = "page_return"
    /\ all_transactions' = all_transactions \o transactions
    /\ page_num' = page_num + 1
    /\ pc' = "page_loop"
    /\ UNCHANGED <<self_warnings, self_confidence, parses, doc, words, lines,
                   table_start_idx, line_idx, transactions, current_transaction, parsed,
                   result>>

\* parse(): post-processing and the successful return
ParseFinish ==
    /\ pc = "page_loop"
    /\ page_num = doc.npages
    /\ result' = <<ParserResult(TRUE, RemoveBalanceForwardEntries(all_transactions),
                                self_confidence, self_warnings, <<>>)>>
    /\ pc' = "done"
    /\ UNCHANGED <<self_warnings, self_confidence, parses, doc, page_num, all_transactions,
                   words, lines, table_start_idx, line_idx, transactions,
                   current_transaction, parsed>>

\* one parse() call on a freshly constructed parser
Next ==
    \/ ParseOpenFails
    \/ ParseBegin
    \/ PageBegin
    \/ PageRaises
    \/ RowEndOfTable
    \/ RowParsed
    \/ RowsReturn
    \/ PageEnd
    \/ ParseFinish

Spec == Init /\ [][Next]_vars

-----------------------------------------------------------------------------
(* The parser object used for several parse() calls *)

\* the documents given to a parser that is used again have at most one page
ShortDocuments == {d \in Documents : d.npages <= 1}

ParseBeginShort == ParseDocument(ShortDocuments)

\* the caller calls parse() on the same object again: the locals of the last call are gone
ParseAgain ==
    /\ pc = "done"
    /\ parses < MaxParses
    /\ pc' = "idle"
    /\ result' = <<>>
    /\ page_num' = 0
    /\ all_transactions' = <<>>
    /\ words' = <<>>
    /\ lines' = <<>>
    /\ table_start_idx' = None
    /\ line_idx' = 0
    /\ transactions' = <<>>
    /\ current_transaction' = <<>>
    /\ parsed' = <<>>
    /\ doc' = NoDocument
    /\ UNCHANGED <<self_warnings, self_confidence, parses>>

NextReuse ==
    \/ ParseOpenFails
    \/ ParseBeginShort
    \/ PageBegin
    \/ PageRaises
    \/ RowEndOfTable
    \/ RowParsed
    \/ RowsReturn
    \/ PageEnd
    \/ ParseFinish
    \/ ParseAgain

SpecReuse == Init /\ [][NextReuse]_vars

-----------------------------------------------------------------------------
(* The row loop on its own: _parse_table_rows_from_lines on bounded line lists *)

\* lines of a table region as <<text, x0>>
RowLineCatalog ==
    {<< <<"01/01/2022", 40>>, <<"7-ELEVEN", 110>>, <<"20.00", 380>>, <<"7,980.00", 520>> >>,
     << <<"02/01/2022", 40>>, <<"NETS", 110>> >>,
     << <<"INCOMING", 110>>, <<"PAYNOW", 170>> >>,
     << <<"5.00", 380>>, <<"125.00", 460>>, <<"7,975.60", 520>> >>,
     << <<"0.00", 380>>, <<"0.00", 460>>, <<"0.00", 520>> >>,
     << <<"Balance", 110>>, <<"Carried", 150>>, <<"Forward", 190>> >>,
     << <<"03/01/2022", 40>>, <<"Page", 280>>, <<"2", 300>> >>,
     << <<"REF", 110>>, <<"12.50", 200>> >>,
     << <<"01/01/20225", 40>>, <<"ADJ", 110>> >>}

LineOf(row, i) ==
    [y |-> RowY(i), words |-> [k \in 1..Len(row) |-> Word(row[k][1], row[k][2], RowY(i))]]

InitRows ==
    /\ pc = "rows"
    /\ \E rows \in SeqsUpTo(RowLineCatalog, MaxRowLines) :
          lines = [i \in 1..Len(rows) |-> LineOf(rows[i], i)]
    /\ self_warnings = <<>>
    /\ self_confidence = ConfidenceOne
    /\ parses = 1
    /\ doc = [npages |-> 1, text |-> ""]
    /\ page_num = 0
    /\ all_transactions = <<>>
    /\ words = <<>>
    /\ table_start_idx = None
    /\ line_idx = 0
    /\ transactions = <<>>
    /\ current_transaction = <<>>
    /\ parsed = <<>>
    /\ result = <<>>

NextRows ==
    \/ RowEndOfTable
    \/ RowParsed
    \/ RowsReturn

SpecRows == InitRows /\ [][NextRows]_vars

-----------------------------------------------------------------------------
(* The row parser on its own: _parse_transaction_from_words on bounded rows *)

RowTexts == {"7-ELEVEN", "20.00", "0.00", "7,980.00"}
RowXs == {110, 364, 380, 440, 503, 520}
RowFirstWords == {"01/01/2022", "1/01/2022"}

\* the words after the first word, sorted by x0 as the line grouper leaves them
RowTail(texts, xs) == [i \in 1..Len(texts) |-> Word(texts[i], xs[i], 100)]

InitRow ==
    /\ pc = "row_input"
    /\ \/ words = <<>>
       \/ \E k \in 0..MaxRowWords, f \in RowFirstWords :
             \E texts \in [1..k -> RowTexts], xs \in [1..k -> RowXs] :
                /\ \A i \in 1..(k - 1) : xs[i] <= xs[i + 1]
                /\ words = <<Word(f, 40, 100)>> \o RowTail(texts, xs)
    /\ self_warnings = <<>>
    /\ self_confidence = ConfidenceOne
    /\ parses = 0
    /\ doc = NoDocument
    /\ page_num = 0
    /\ all_transactions = <<>>
    /\ lines = <<>>
    /\ table_start_idx = None
    /\ line_idx = 0
    /\ transactions = <<>>
    /\ current_transaction = <<>>
    /\ parsed = <<>>
    /\ result = <<>>

ApplyParseTransaction ==
    /\ pc = "row_input"
    /\ parsed' = ParseTransactionFromWords(words)
    /\ pc' = "row_parsed"
    /\ UNCHANGED <<self_warnings, self_confidence, parses, doc, page_num, all_transactions,
                   words, lines, table_start_idx, line_idx, transactions,
                   current_transaction, result>>

SpecRow == InitRow /\ [][ApplyParseTransaction]_vars

-----------------------------------------------------------------------------
(* The line grouper on its own: _group_words_into_lines on bounded token lists *)

GroupTokens ==
    {Word("A", x, y) : x \in {40, 110}, y \in {100, 102, 104, 110}}
    \cup {Word("B", 40, y) : y \in {100, 102, 104, 110}}

InitGroup ==
    /\ pc = "group_input"
    /\ words \in SeqsUpTo(GroupTokens, MaxGroupWords)
    /\ self_warnings = <<>>
    /\ self_confidence = ConfidenceOne
    /\ parses = 0
    /\ doc = NoDocument
    /\ page_num = 0
    /\ all_transactions = <<>>
    /\ lines = <<>>
    /\ table_start_idx = None
    /\ line_idx = 0
    /\ transactions = <<>>
    /\ current_transaction = <<>>
    /\ parsed = <<>>
    /\ result = <<>>

ApplyGroupWords ==
    /\ pc = "group_input"
    /\ lines' = GroupWordsIntoLines(words)
    /\ pc' = "grouped"
    /\ UNCHANGED <<self_warnings, self_confidence, parses, doc, page_num, all_transactions,
                   words, table_start_idx, line_idx, transactions, current_transaction,
                   parsed, result>>

SpecGroup == InitGroup /\ [][ApplyGroupWords]_vars

-----------------------------------------------------------------------------
(* The table locator on its own: _find_table_start_from_lines on bounded line lists *)

\* lines of a page as <<text, x0>>: the marker in two spellings, a date row, a line that
\* satisfies both rules, a line that only begins with a date, and lines that match neither
LocateLineCatalog ==
    {<< <<"Currency:", 60>>, <<"SGD", 110>> >>,
     << <<"Date", 40>>, <<"currency:sgd", 110>> >>,
     << <<"01/01/2022", 40>>, <<"7-ELEVEN", 110>> >>,
     << <<"01/01/2022", 40>>, <<"CURRENCY:", 110>> >>,
     << <<"01/01/20225", 40>>, <<"ADJ", 110>> >>,
     << <<"Ref", 40>>, <<"01/01/2022", 110>> >>,
     << <<"Account", 40>>, <<"Summary", 110>> >>}

InitLocate ==
    /\ pc = "locate_input"
    /\ \E rows \in SeqsUpTo(LocateLineCatalog, MaxLocateLines) :
          lines = [i \in 1..Len(rows) |-> LineOf(rows[i], i)]
    /\ self_warnings = <<>>
    /\ self_confidence = ConfidenceOne
    /\ parses = 0
    /\ doc = NoDocument
    /\ page_num = 0
    /\ all_transactions = <<>>
    /\ words = <<>>
    /\ table_start_idx = None
    /\ line_idx = 0
    /\ transactions = <<>>
    /\ current_transaction = <<>>
    /\ parsed = <<>>
    /\ result = <<>>

ApplyFindTableStart ==
    /\ pc = "locate_input"
    /\ table_start_idx' = FindTableStartFromLines(lines)
    /\ pc' = "located"
    /\ UNCHANGED <<self_warnings, self_confidence, parses, doc, page_num, all_transactions,
                   words, lines, line_idx, transactions, current_transaction, parsed,
                   result>>

SpecLocate == InitLocate /\ [][ApplyFindTableStart]_vars

-----------------------------------------------------------------------------
(* Properties *)

\* the row loop is about to merge the next line into the open record
ContinuationLine ==
    /\ InRowLoop
    /\ ~IsEndOfTable(NextLine)
    /\ ParseTransactionFromWords(NextLine.words) = <<>>
    /\ current_transaction # <<>>

\* C1: once an amount slot of the open record holds a parsed amount (0.00 included), no
\* continuation line changes it.  The code tests the slot for truth, not for None, so a
\* slot holding 0.00 is filled again.
C1_FilledSlotKept ==
    [][ContinuationLine =>
          /\ current_transaction[1].withdrawal # None
                => current_transaction'[1].withdrawal = current_transaction[1].withdrawal
          /\ current_transaction[1].deposit # None
                => current_transaction'[1].deposit = current_transaction[1].deposit
          /\ current_transaction[1].balance # None
                => current_transaction'[1].balance = current_transaction[1].balance]_vars

\* the tokens of a line as a bag, and the x0 of its words in order
BagOfWords(ws) ==
    [w \in {ws[i] : i \in 1..Len(ws)} |-> Cardinality({i \in 1..Len(ws) : ws[i] = w})]

LineShapes(ls) ==
    {[members |-> BagOfWords(ls[i].words),
      xs |-> [k \in 1..Len(ls[i].words) |-> ls[i].words[k].x0]] : i \in 1..Len(ls)}

Reordered(ws, p) == [i \in 1..Len(ws) |-> ws[p[i]]]

\* the lines of the grouped words are the lines of every reordering of the words
SameLinesInAnyOrder ==
    \A p \in Permutations(1..Len(words)) :
        LineShapes(GroupWordsIntoLines(Reordered(words, p))) = LineShapes(lines)

\* being within 3 points of each other is transitive on the words' y0
ProximityTransitive(ws) ==
    \A i, j, k \in 1..Len(ws) :
        Abs(ws[i].y0 - ws[j].y0) < LineProximity /\ Abs(ws[j].y0 - ws[k].y0) < LineProximity
            => Abs(ws[i].y0 - ws[k].y0) < LineProximity

\* C2 as stated: grouping any order of a token multiset gives the same lines
C2_AnyOrderSameLines == pc = "grouped" => SameLinesInAnyOrder

\* C2 amended: grouping any order of a token multiset gives the same lines (same tokens
\* per line, same x0 order per line) when no token is within 3 points of two tokens
\* that are 3 points or more apart
C2_TransitiveOrderSameLines ==
    pc = "grouped" /\ ProximityTransitive(words) => SameLinesInAnyOrder

\* two rows, the first fed right word first with its words one point apart
C2_Witness ==
    /\ pc = "grouped"
    /\ ProximityTransitive(words)
    /\ Len(words) = 3
    /\ Len(lines) = 2
    /\ words[1].x0 > words[2].x0
    /\ Abs(words[1].y0 - words[2].y0) = 2
    /\ lines[1].words = <<words[2], words[1]>>

\* a date row has been parsed: parsed holds the record of words
DateRowParsed == pc = "row_parsed" /\ parsed # <<>>

\* some amount-shaped word after the date has the value v and an x0 the test accepts
AmountWordAt(v, Accepts(_, _)) ==
    \E i \in 2..Len(words) :
        /\ TryParseAmount(words[i].text) = v
        /\ Accepts(words[i].x0, v)

\* C3 as stated: in the record of a date row, the balance is an amount word right of 503,
\* the deposit one right of 440 and the withdrawal one right of 364
C3_ThresholdsExact ==
    DateRowParsed =>
        /\ parsed[1].balance # None
              => AmountWordAt(parsed[1].balance, LAMBDA x, v : x > BalanceX)
        /\ parsed[1].deposit # None
              => AmountWordAt(parsed[1].deposit, LAMBDA x, v : x > DepositX)
        /\ parsed[1].withdrawal # None
              => AmountWordAt(parsed[1].withdrawal, LAMBDA x, v : x > WithdrawalX)

\* C3 amended: an amount word with x0 <= 364 lands in no amount column and one with
\* x0 <= 440 never in deposit; an amount word with x0 <= 503 is the record's balance only
\* by the misclassification correction, that is only when 364 < x0 and its value is
\* above 1000
C3_ThresholdsUpToCorrection ==
    DateRowParsed =>
        /\ parsed[1].balance # None
              => AmountWordAt(parsed[1].balance,
                              LAMBDA x, v : x > BalanceX
                                            \/ (x > WithdrawalX /\ v > MisclassifiedAbove))
        /\ parsed[1].deposit # None
              => AmountWordAt(parsed[1].deposit, LAMBDA x, v : x > DepositX /\ x <= BalanceX)
        /\ parsed[1].withdrawal # None
              => AmountWordAt(parsed[1].withdrawal,
                              LAMBDA x, v : x > WithdrawalX /\ x <= DepositX)

\* amounts exactly on the three bounds stay in the column below
C3_Witness ==
    /\ DateRowParsed
    /\ Len(words) = 4
    /\ words[2] = Word("7,980.00", WithdrawalX, 100)
    /\ words[3] = Word("20.00", DepositX, 100)
    /\ words[4] = Word("0.00", BalanceX, 100)
    /\ parsed[1] = [date |-> "01/01/2022", description |-> "7,980.00",
                    withdrawal |-> 2000, deposit |-> 0, balance |-> None]

\* C6: a withdrawal above 1000 on a row without a balance becomes the balance, likewise
\* a deposit (when the withdrawal did not take the balance first); a withdrawal or
\* deposit of at most 1000, or one on a row that has a balance, stays in its column.
\* The code tests the balance for truth, so a balance of 0.00 counts as no balance.
C6_MisclassificationCorrection ==
    DateRowParsed =>
        LET a == AssignColumns(words)
            moved == a.withdrawal # None /\ a.balance = None
                     /\ a.withdrawal > MisclassifiedAbove
        IN  /\ moved => parsed[1].balance = a.withdrawal /\ parsed[1].withdrawal = None
            /\ a.deposit # None /\ a.balance = None /\ ~moved /\ a.deposit > MisclassifiedAbove
                  => parsed[1].balance = a.deposit /\ parsed[1].deposit = None
            /\ a.withdrawal # None /\ (a.withdrawal <= MisclassifiedAbove \/ a.balance # None)
                  => parsed[1].withdrawal = a.withdrawal
            /\ a.deposit # None /\ (a.deposit <= MisclassifiedAbove \/ a.balance # None)
                  => parsed[1].deposit = a.deposit

\* the indices of the amount-shaped words after the date whose x0 is in the range
AmountIndices(InRange(_)) ==
    {i \in 2..Len(words) : TryParseAmount(words[i].text) # None /\ InRange(words[i].x0)}

InWithdrawalRange(x) == x > WithdrawalX /\ x <= DepositX
InDepositRange(x) == x > DepositX /\ x <= BalanceX
InBalanceRange(x) == x > BalanceX

\* the value of the rightmost such word, None when there is none
LastAmount(InRange(_)) ==
    IF AmountIndices(InRange) = {} THEN None
    ELSE TryParseAmount(words[CHOOSE i \in AmountIndices(InRange) :
                                  \A j \in AmountIndices(InRange) : j <= i].text)

\* the texts of the words at the indices I, in the order of the indices
TextsAt(I) ==
    [k \in 1..Cardinality(I) |->
        words[CHOOSE i \in I : Cardinality({j \in I : j <= i}) = k].text]

\* an amount word of the range holds the slot, which is None when the range has none
SlotFromRange(slot, InRange(_)) ==
    IF AmountIndices(InRange) = {} THEN slot = None
    ELSE \E i \in AmountIndices(InRange) : slot = TryParseAmount(words[i].text)

\* C9 as stated: the record of a date row has the first word as date, the non-amount
\* words as description and, per column range, an amount word of that range or None
C9_NewRecord ==
    pc = "row_parsed" /\ Len(words) > 0 /\ MatchesDate(words[1].text) =>
        /\ Len(parsed) = 1
        /\ parsed[1].date = words[1].text
        /\ parsed[1].description =
               JoinTexts(TextsAt({i \in 2..Len(words) : TryParseAmount(words[i].text) = None}))
        /\ SlotFromRange(parsed[1].withdrawal, InWithdrawalRange)
        /\ SlotFromRange(parsed[1].deposit, InDepositRange)
        /\ SlotFromRange(parsed[1].balance, InBalanceRange)

\* C9 amended: on a row with no amount above 1000 in the withdrawal or deposit range, the
\* record has the first word as date, as description the words that are not amount-shaped
\* or lie at x0 <= 364, and per column range its rightmost amount word or None
C9_NewRecordWithoutCorrection ==
    /\ pc = "row_parsed"
    /\ Len(words) > 0
    /\ MatchesDate(words[1].text)
    /\ \A i \in AmountIndices(LAMBDA x : x > WithdrawalX /\ x <= BalanceX) :
           TryParseAmount(words[i].text) <= MisclassifiedAbove
    => parsed = <<[date |-> words[1].text,
                   description |->
                       JoinTexts(TextsAt({i \in 2..Len(words) :
                                             \/ TryParseAmount(words[i].text) = None
                                             \/ words[i].x0 <= WithdrawalX})),
                   withdrawal |-> LastAmount(InWithdrawalRange),
                   deposit |-> LastAmount(InDepositRange),
                   balance |-> LastAmount(InBalanceRange)]>>

\* scenario A of the specification
C9_Witness ==
    /\ pc = "row_parsed"
    /\ words = <<Word("01/01/2022", 40, 100), Word("7-ELEVEN", 110, 100),
                 Word("20.00", 380, 100), Word("7,980.00", 520, 100)>>
    /\ parsed = <<[date |-> "01/01/2022", description |-> "7-ELEVEN", withdrawal |-> 2000,
                   deposit |-> None, balance |-> 798000]>>

\* C7: at a line with an end-of-table marker the open record, if any, is appended as it
\* is and the loop stops; the output of the page is then what it was after that append.
\* The code appends the open record again after the loop ("Add final transaction"),
\* because the break leaves current_transaction set.
C7_TableTermination ==
    [][/\ InRowLoop /\ IsEndOfTable(NextLine)
          => /\ transactions' = CloseInto(transactions, current_transaction)
             /\ current_transaction' = current_transaction
             /\ pc' = "rows_break"
       /\ pc = "rows_break" => transactions' = transactions]_vars

\* C10: a continuation line without an amount-shaped word appends a space and its
\* space-joined words to the description of the open record and leaves the date, page,
\* withdrawal, deposit and balance as they were
C10_DescriptionContinuation ==
    [][ContinuationLine
       /\ (\A i \in 1..Len(NextLine.words) : TryParseAmount(NextLine.words[i].text) = None)
       => /\ Len(current_transaction') = 1
          /\ current_transaction'[1].description =
                 current_transaction[1].description \o " "
                     \o JoinTexts([i \in 1..Len(NextLine.words) |-> NextLine.words[i].text])
          /\ current_transaction'[1].date = current_transaction[1].date
          /\ current_transaction'[1].page = current_transaction[1].page
          /\ current_transaction'[1].withdrawal = current_transaction[1].withdrawal
          /\ current_transaction'[1].deposit = current_transaction[1].deposit
          /\ current_transaction'[1].balance = current_transaction[1].balance]_vars

\* scenario B of the specification: "INCOMING PAYNOW" has just continued the 7-ELEVEN row
C10_Witness ==
    /\ pc = "rows"
    /\ line_idx = 2
    /\ LineText(lines[2].words) = "INCOMING PAYNOW"
    /\ current_transaction =
           <<[date |-> "01/01/2022", description |-> "7-ELEVEN INCOMING PAYNOW",
              withdrawal |-> 2000, deposit |-> None, balance |-> 798000, page |-> 1]>>

\* parse() has returned a successful result
Succeeded == pc = "done" /\ result # <<>> /\ result[1].success

HasForwardMarker(description) ==
    \/ Contains(description, "Balance Brought Forward")
    \/ Contains(description, "Balance Carried Forward")

\* C4: no record of a successful result has a description containing "Balance Brought
\* Forward" or "Balance Carried Forward", and the records of the pages without such a
\* description are all returned, in their order
C4_PostFilter ==
    Succeeded =>
        LET data == result[1].data
            kept == {i \in 1..Len(all_transactions) :
                        ~HasForwardMarker(all_transactions[i].description)}
        IN  /\ \A k \in 1..Len(data) : ~HasForwardMarker(data[k].description)
            /\ Len(data) = Cardinality(kept)
            /\ \A k \in 1..Len(data) :
                   data[k] = all_transactions[CHOOSE i \in kept :
                                                  Cardinality({j \in kept : j <= i}) = k]

\* a description that became "Balance Carried Forward" by a continuation line and a
\* "Balance Brought Forward" row are filtered out, the record between them is kept
C4_Witness ==
    /\ Succeeded
    /\ Len(all_transactions) = 3
    /\ all_transactions[1].description = "Balance Carried Forward"
    /\ all_transactions[2].description = "7-ELEVEN"
    /\ all_transactions[3].description = "Balance Brought Forward"
    /\ result[1].data = <<all_transactions[2]>>

\* C5: the confidence of every result is in [0,1], and it is 1.0 only if the parse
\* succeeded on a document whose first page has neither a thin text layer nor missing
\* headers
C5_ConfidenceRange ==
    result # <<>> =>
        /\ result[1].confidence >= 0
        /\ result[1].confidence <= ConfidenceOne
        /\ result[1].confidence = ConfidenceOne
              => /\ result[1].success
                 /\ Len(Strip(doc.text)) >= MinTextLen
                 /\ \/ Contains(doc.text, "Transaction Details")
                    \/ Contains(doc.text, "Account Summary")

\* a parse without penalty returns records with confidence 1.0
C5_Witness ==
    /\ Succeeded
    /\ Len(result[1].data) > 0
    /\ result[1].confidence = ConfidenceOne

\* C8: a document without pages gives success=false, confidence 0.0, the abort reason
\* "Document integrity check failed", no data and the warning "Empty document", and no
\* page of it is processed
C8_EmptyDocument ==
    doc.npages = 0 =>
        /\ pc = "done"
        /\ page_num = 0
        /\ words = <<>>
        /\ Len(result) = 1
        /\ result[1].success = FALSE
        /\ result[1].confidence = 0
        /\ result[1].abort_reason = <<"Document integrity check failed">>
        /\ result[1].data = <<>>
        /\ \E i \in 1..Len(result[1].warnings) : result[1].warnings[i] = "Empty document"

C8_Witness ==
    /\ pc = "done"
    /\ doc.npages = 0
    /\ result # <<>>
    /\ result[1].warnings = <<"Empty document">>

\* parse() has returned a failure
Failed == pc = "done" /\ result # <<>> /\ ~result[1].success

\* the result is the one of the except branch for the error text e
RaisedWith(e) == Failed /\ result[1].abort_reason = <<"Unexpected error: " \o e>>

\* C11: every result with success=false has confidence 0, no data and a non-empty abort
\* reason, and when it comes from an exception the error text is among its warnings;
\* every result with success=true has no abort reason
C11_AbortOutcome ==
    result # <<>> =>
        /\ ~result[1].success
              => /\ result[1].confidence = 0
                 /\ result[1].data = <<>>
                 /\ Len(result[1].abort_reason) = 1
                 /\ Len(result[1].abort_reason[1]) > 0
                 /\ \/ doc.npages = 0
                    \/ \E e \in ErrorTexts : RaisedWith(e)
        /\ \A e \in ErrorTexts :
               RaisedWith(e)
                   => \E i \in 1..Len(result[1].warnings) : result[1].warnings[i] = e
        /\ result[1].success => result[1].abort_reason = <<>>

\* the second page raises after the first page produced a record
C11_Witness ==
    /\ \E e \in ErrorTexts : RaisedWith(e)
    /\ page_num = 1
    /\ Len(all_transactions) > 0
    /\ result[1].data = <<>>

\* the step of _extract_page_transactions that takes the words of the next page
TakesPageWords == pc = "page_loop" /\ pc' \in {"page_return", "rows"}

\* the two warnings that name the page
PageWarnings(n) ==
    {"No text found on page " \o ToString(n),
     "Could not find transaction table on page " \o ToString(n)}

\* C12: a page without words or without a located table start gives no transactions and
\* one warning that names the page, and parse goes on to the next page without a
\* result; every page that yields no table region (no words, no table start, or no line
\* from the table start on) adds such a warning.  The code adds no warning when the
\* "CURRENCY:" line is the last line of the page: the table start is then the number of
\* lines and the region is empty.
C12_PageSoftFailure ==
    [][TakesPageWords =>
          LET ls == IF Len(words') = 0 THEN <<>> ELSE GroupWordsIntoLines(words')
              start == FindTableStartFromLines(ls)
              notLocated == Len(words') = 0 \/ start = None
              noRegion == notLocated \/ Len(SliceFrom(ls, start)) = 0
              warned == /\ Len(self_warnings') = Len(self_warnings) + 1
                        /\ SubSeq(self_warnings', 1, Len(self_warnings)) = self_warnings
                        /\ self_warnings'[Len(self_warnings')] \in PageWarnings(page_num + 1)
          IN  /\ notLocated => /\ warned
                               /\ transactions' = <<>>
                               /\ pc' = "page_return"
                               /\ result' = result
              /\ noRegion => warned]_vars

\* the number of the first line with an end-of-table marker, Len(ls) + 1 without one
FirstTerminator(ls) ==
    IF \E i \in 1..Len(ls) : IsEndOfTable(ls[i])
    THEN CHOOSE i \in 1..Len(ls) :
             IsEndOfTable(ls[i]) /\ \A j \in 1..(i - 1) : ~IsEndOfTable(ls[j])
    ELSE Len(ls) + 1

\* the date rows the row loop processes: those above the first terminator
DateRowsProcessed(ls) ==
    {i \in 1..(FirstTerminator(ls) - 1) : ParseTransactionFromWords(ls[i].words) # <<>>}

\* C13: at most one record is open during the row loop, and when the loop has returned
\* the output of the page holds one record per date row processed before the first
\* terminator, in the order of the date rows.  The code appends the record that is open
\* at a terminator twice.
C13_OpenRecordOnce ==
    /\ Len(current_transaction) <= 1
    /\ pc = "page_return" =>
           LET rows == DateRowsProcessed(lines)
           IN  /\ Len(transactions) = Cardinality(rows)
               /\ \A k \in 1..Len(transactions) :
                      \E i \in rows :
                         /\ Cardinality({j \in rows : j <= i}) = k
                         /\ transactions[k].date = lines[i].words[1].text

\* the lines (numbered from 1) that satisfy one of the two rules of the locator
TableStartLines(ls) ==
    {i \in 1..Len(ls) : HasCurrencyMarker(ls[i]) \/ StartsWithDate(LineText(ls[i].words))}

\* for the first line i (0-based) that holds "CURRENCY:" in any case or starts with a
\* date, the locator returns i + 1 when the line holds the marker and i otherwise, and
\* it returns None iff there is no such line
LocatesFirstMatch ==
    LET hits == TableStartLines(lines)
        first == CHOOSE i \in hits : \A j \in hits : i <= j
    IN  /\ table_start_idx = None <=> hits = {}
        /\ hits # {} =>
               table_start_idx = IF HasCurrencyMarker(lines[first]) THEN (first - 1) + 1
                                 ELSE first - 1

\* C14: the locator returns i + 1 or i for the first line that satisfies a rule, None
\* iff no line does, and an index it returns is the index of a line (0 <= index <
\* number of lines).  The code returns the number of lines when the first match is a
\* "CURRENCY:" line that is the last line.
C14_TableLocator ==
    pc = "located" =>
        /\ LocatesFirstMatch
        /\ table_start_idx # None => 0 <= table_start_idx /\ table_start_idx < Len(lines)

\* the slot value v is what it was (old) or the amount of a word of ws right of 364
FromAmountColumns(v, old, ws) ==
    \/ v = old
    \/ \E j \in 1..Len(ws) : ws[j].x0 > WithdrawalX /\ v = TryParseAmount(ws[j].text)

\* C15: when the row loop takes a date row or a continuation line of the open record,
\* every amount-shaped word of it with x0 <= 364 has its text in the description of the
\* record afterwards, and no amount slot takes a value other than from a word right of
\* 364.  On a continuation line the code only notes that the line has an amount and
\* then appends nothing to the description.
C15_DescriptionRangeAmount ==
    [][InRowLoop /\ ~IsEndOfTable(NextLine)
       /\ (ParseTransactionFromWords(NextLine.words) # <<>> \/ current_transaction # <<>>)
       => LET ws == NextLine.words
              isNew == ParseTransactionFromWords(ws) # <<>>
              old(slot) == IF isNew THEN None ELSE slot
              from == IF isNew THEN 2 ELSE 1
          IN  /\ Len(current_transaction') = 1
              /\ \A i \in from..Len(ws) :
                     TryParseAmount(ws[i].text) # None /\ ws[i].x0 <= WithdrawalX
                         => Contains(current_transaction'[1].description, ws[i].text)
              /\ FromAmountColumns(current_transaction'[1].withdrawal,
                                   old(current_transaction[1].withdrawal), ws)
              /\ FromAmountColumns(current_transaction'[1].deposit,
                                   old(current_transaction[1].deposit), ws)
              /\ FromAmountColumns(current_transaction'[1].balance,
                                   old(current_transaction[1].balance), ws)]_vars

\* what the validator leaves on a parser that has its initial fields
FreshValidation(d) == ValidateDocument(d, <<>>, ConfidenceOne)

\* ws holds the validator's warnings for d and then at most one warning per page of d
WarningsOfOneParse(ws, d) ==
    LET k == Len(FreshValidation(d).warnings)
    IN  /\ Len(ws) >= k
        /\ SubSeq(ws, 1, k) = FreshValidation(d).warnings
        /\ \A i \in (k + 1)..Len(ws) : \E n \in 1..d.npages : ws[i] \in PageWarnings(n)
        /\ \A i, j \in (k + 1)..Len(ws) : i # j => ws[i] # ws[j]

\* C16: every successful result, also that of a later parse() call on the same object,
\* has the confidence 1.0 times the penalties of its own document (one of 1.0, 0.5, 0.7,
\* 0.35) and only the warnings of its own call.  The code never resets self.confidence
\* and self.warnings, so a later call starts from what the calls before it left.
C16_PerInvocation ==
    Succeeded =>
        /\ result[1].confidence = FreshValidation(doc).confidence
        /\ result[1].confidence \in {ConfidenceOne, Halve(ConfidenceOne),
                                     SevenTenths(ConfidenceOne),
                                     SevenTenths(Halve(ConfidenceOne))}
        /\ WarningsOfOneParse(result[1].warnings, doc)

\* the row loop is about to take a line that is no terminator and whose first word is
\* not exactly DD/MM/YYYY, while no record is open
StrayLine ==
    /\ InRowLoop
    /\ ~IsEndOfTable(NextLine)
    /\ (Len(NextLine.words) > 0 => ~DateShape(NextLine.words[1].text))
    /\ current_transaction = <<>>

\* C17: a line that is neither a date row nor a terminator, taken while no record is
\* open, is dropped: no record is opened, the output and the warnings stay as they are,
\* and the loop goes on with the next line
C17_StrayLineDropped ==
    [][StrayLine
       => /\ current_transaction' = <<>>
          /\ transactions' = transactions
          /\ self_warnings' = self_warnings
          /\ all_transactions' = all_transactions
          /\ line_idx' = line_idx + 1
          /\ pc' = "rows"]_vars

\* a line that begins with a date but whose first word is "01/01/20225" was dropped and
\* the date row below it gave the one record of the page
C17_Witness ==
    /\ pc = "page_return"
    /\ Len(lines) = 2
    /\ LineText(lines[1].words) = "01/01/20225 ADJ"
    /\ self_warnings = <<>>
    /\ Len(transactions) = 1
    /\ transactions[1].date = lines[2].words[1].text
    /\ transactions[1].description = "NETS"

====
